---- MODULE Spec2Model ----
(***************************************************************************)
(* Cycle-stepped instruction dispatch of the nesty 6502 core:              *)
(* dispatch_current_opcode, the read addressing-mode templates and the     *)
(* CMP / EOR handlers, driven one bus cycle at a time.                     *)
(***************************************************************************)
EXTENDS Integers, Naturals, Sequences, FiniteSets, TLC

VARIABLES
    cpu,        \* the Cpu value: registers, status flags and per-instruction scratch
    memory,     \* the memory lent to the dispatcher: program cells over a background pattern
    flow,       \* what the last cycle returned: None, Continue, Break, Unimplemented, Unreachable
    bus,        \* the bus transactions of the last cycle, in order
    handed,     \* the bytes the last cycle handed to the mnemonic handler f
    calls,      \* cycles run since (and including) the last opcode fetch
    trace,      \* the bus transactions since (and including) the last opcode fetch
    fcalls,     \* the bytes handed to f since the last opcode fetch
    start,      \* the Cpu value right before the last opcode fetch
    prev,       \* the Cpu value right before the last cycle
    instrs,     \* instructions completed so far
    legacy,     \* a CpuState run side by side through the templates of templates.rs
    diagnostic  \* what the panic that ended the run reported: its message and arguments

vars == <<cpu, memory, flow, bus, handed, calls, trace, fcalls, start, prev, instrs, legacy,
          diagnostic>>

-----------------------------------------------------------------------------
(* Bounds of the model *)

\* instructions the clock runs before the caller stops invoking the dispatcher
MaxInstr == 2

\* the background memory patterns tried: seeds 0 .. NumSeeds - 1
NumSeeds == 1

-----------------------------------------------------------------------------
(* Fixed-width arithmetic *)

RECURSIVE BitOr(_, _)
BitOr(a, b) ==
    IF a = 0 THEN b
    ELSE IF b = 0 THEN a
    ELSE (IF (a % 2 = 1) \/ (b % 2 = 1) THEN 1 ELSE 0) + 2 * BitOr(a \div 2, b \div 2)

RECURSIVE BitXor(_, _)
BitXor(a, b) ==
    IF a = 0 THEN b
    ELSE IF b = 0 THEN a
    ELSE (IF (a % 2) # (b % 2) THEN 1 ELSE 0) + 2 * BitXor(a \div 2, b \div 2)

\* `x as u8`
as_u8(x) == x % 256

\* u8::wrapping_add
wrapping_add_u8(a, b) == (a + b) % 256

\* u8::overflowing_add: the wrapped sum and whether it overflowed
overflowing_add_u8(a, b) == <<(a + b) % 256, (a + b) > 255>>

\* u16::wrapping_add
wrapping_add_u16(a, b) == (a + b) % 65536

\* (x as u16) << 8
shl8_u16(x) == (x * 256) % 65536

\* `(result as i8) < 0`
is_negative_i8(x) == x >= 128

-----------------------------------------------------------------------------
(* Opcode decoding *)

OpCodeTable ==
    {
       <<105, "AdcImmediate">>, <<101, "AdcZeroPage">>, <<117, "AdcZeroPageX">>,
       <<109, "AdcAbsolute">>, <<125, "AdcAbsoluteX">>, <<121, "AdcAbsoluteY">>,
       <<97, "AdcIndirectX">>, <<113, "AdcIndirectY">>, <<41, "AndImmediate">>,
       <<37, "AndZeroPage">>, <<53, "AndZeroPageX">>, <<45, "AndAbsolute">>,
       <<61, "AndAbsoluteX">>, <<57, "AndAbsoluteY">>, <<33, "AndIndirectX">>,
       <<49, "AndIndirectY">>, <<36, "BitZeroPage">>, <<44, "BitAbsolute">>,
       <<24, "Clc">>, <<216, "Cld">>, <<88, "Cli">>,
       <<184, "Clv">>, <<201, "CmpImmediate">>, <<197, "CmpZeroPage">>,
       <<213, "CmpZeroPageX">>, <<205, "CmpAbsolute">>, <<221, "CmpAbsoluteX">>,
       <<217, "CmpAbsoluteY">>, <<193, "CmpIndirectX">>, <<209, "CmpIndirectY">>,
       <<202, "Dex">>, <<136, "Dey">>, <<73, "EorImmediate">>,
       <<69, "EorZeroPage">>, <<85, "EorZeroPageX">>, <<77, "EorAbsolute">>,
       <<93, "EorAbsoluteX">>, <<89, "EorAbsoluteY">>, <<65, "EorIndirectX">>,
       <<81, "EorIndirectY">>, <<232, "Inx">>, <<200, "Iny">>,
       <<169, "LdaImmediate">>, <<165, "LdaZeroPage">>, <<181, "LdaZeroPageX">>,
       <<173, "LdaAbsolute">>, <<189, "LdaAbsoluteX">>, <<185, "LdaAbsoluteY">>,
       <<161, "LdaIndirectX">>, <<177, "LdaIndirectY">>, <<162, "LdxImmediate">>,
       <<166, "LdxZeroPage">>, <<182, "LdxZeroPageY">>, <<174, "LdxAbsolute">>,
       <<190, "LdxAbsoluteY">>, <<160, "LdyImmediate">>, <<164, "LdyZeroPage">>,
       <<180, "LdyZeroPageX">>, <<172, "LdyAbsolute">>, <<188, "LdyAbsoluteX">>,
       <<234, "Nop">>, <<9, "OraImmediate">>, <<5, "OraZeroPage">>,
       <<21, "OraZeroPageX">>, <<13, "OraAbsolute">>, <<29, "OraAbsoluteX">>,
       <<25, "OraAbsoluteY">>, <<1, "OraIndirectX">>, <<17, "OraIndirectY">>,
       <<233, "SbcImmediate">>, <<229, "SbcZeroPage">>, <<245, "SbcZeroPageX">>,
       <<237, "SbcAbsolute">>, <<253, "SbcAbsoluteX">>, <<249, "SbcAbsoluteY">>,
       <<225, "SbcIndirectX">>, <<241, "SbcIndirectY">>, <<56, "Sec">>,
       <<248, "Sed">>, <<120, "Sei">>, <<133, "StaZeroPage">>,
       <<149, "StaZeroPageX">>, <<141, "StaAbsolute">>, <<157, "StaAbsoluteX">>,
       <<153, "StaAbsoluteY">>, <<129, "StaIndirectX">>, <<145, "StaIndirectY">>,
       <<134, "StxZeroPage">>, <<150, "StxZeroPageY">>, <<142, "StxAbsolute">>,
       <<132, "StyZeroPage">>, <<148, "StyZeroPageX">>, <<140, "StyAbsolute">>,
       <<170, "Tax">>, <<168, "Tay">>, <<186, "Tsx">>,
       <<138, "Txa">>, <<154, "Txs">>, <<152, "Tya">>,
       <<0, "Unimplemented">>
    }

\* OpCode::from(u8): the variant with that discriminant, else the #[default] variant
\* OpCode::from with #[default] on Nop instead of Unimplemented
OpCodeFrom_default_nop(byte) ==
    IF \E e \in OpCodeTable : e[1] = byte
    THEN (CHOOSE e \in OpCodeTable : e[1] = byte)[2]
    ELSE "Nop"

OpCodeFrom(byte) ==
    IF \E e \in OpCodeTable : e[1] = byte
    THEN (CHOOSE e \in OpCodeTable : e[1] = byte)[2]
    ELSE "Unimplemented"

-----------------------------------------------------------------------------
(* Memory and the bus *)

\* the byte of the background pattern at an address
Fill(seed, addr) == (seed + 3 * (addr % 256) + 7 * (addr \div 256)) % 256

\* Memory::load
load(m, addr) == IF addr \in DOMAIN m.cells THEN m.cells[addr] ELSE Fill(m.seed, addr)

LoadAt(addr) == [op |-> "load", addr |-> addr]

\* Memory::store
store(m, addr, value) ==
    [m EXCEPT !.cells = [a \in (DOMAIN m.cells) \cup {addr} |->
                            IF a = addr THEN value ELSE m.cells[a]]]

StoreAt(addr, value) == [op |-> "store", addr |-> addr, value |-> value]

\* the memory after the bus transactions of one call
RECURSIVE Transact(_, _)
Transact(m, transactions) ==
    IF transactions = <<>>
    THEN m
    ELSE LET t == Head(transactions)
         IN  Transact(IF t.op = "store" THEN store(m, t.addr, t.value) ELSE m,
                      Tail(transactions))

\* fetch_from_pc: load the byte at PC, then advance PC
fetch_from_pc(c, m) ==
    [ cpu   |-> [c EXCEPT !.program_counter = wrapping_add_u16(@, 1)],
      value |-> load(m, c.program_counter),
      bus   |-> <<LoadAt(c.program_counter)>> ]

-----------------------------------------------------------------------------
(* Flag primitives and mnemonic handlers *)

\* bitflags set(flag, value)
flags_set(flags, flag, value) == IF value THEN flags \cup {flag} ELSE flags \ {flag}

\* sub_with_carry(a, b, carry): a - b - (1 - carry) as a + ~b + carry, with carry out
sub_with_carry(a, b, carry) ==
    LET sum == a + (255 - b) + (IF carry THEN 1 ELSE 0)
    IN  <<sum % 256, sum > 255>>

\* set_register: the flags after a register is assigned `value`
set_register(value, flags) ==
    flags_set(flags_set(flags, "ZERO", value = 0), "NEGATIVE", is_negative_i8(value))

\* cmp::common subtracting with the incoming carry as the borrow, as SBC does
cmp_common_borrow(c, value) ==
    LET sub      == sub_with_carry(c.accumulator, value, "CARRY" \in c.flags)
        result   == sub[1]
        carry    == sub[2]
        negative == is_negative_i8(result)
        zero     == result = 0
    IN  [c EXCEPT !.flags =
            flags_set(flags_set(flags_set(@, "CARRY", carry), "NEGATIVE", negative),
                      "ZERO", zero)]

cmp_common(c, value) ==
    LET sub      == sub_with_carry(c.accumulator, value, TRUE)
        result   == sub[1]
        carry    == sub[2]
        negative == is_negative_i8(result)
        zero     == result = 0
    IN  [c EXCEPT !.flags =
            flags_set(flags_set(flags_set(@, "CARRY", carry), "NEGATIVE", negative),
                      "ZERO", zero)]

\* eor::common with | for ^
eor_common_or(c, value) ==
    LET new_accomulator == BitOr(c.accumulator, value)
    IN  [c EXCEPT !.accumulator = new_accomulator,
                  !.flags = set_register(new_accomulator, @)]

\* eor::common also writing CARRY, as the arithmetic and shift handlers do
eor_common_carry(c, value) ==
    LET new_accomulator == BitXor(c.accumulator, value)
    IN  [c EXCEPT !.accumulator = new_accomulator,
                  !.flags = flags_set(set_register(new_accomulator, @), "CARRY", FALSE)]

eor_common(c, value) ==
    LET new_accomulator == BitXor(c.accumulator, value)
    IN  [c EXCEPT !.accumulator = new_accomulator,
                  !.flags = set_register(new_accomulator, @)]

ldx_common(c, value) ==
    [c EXCEPT !.x_index = value, !.flags = set_register(value, @)]

\* the closure f handed to a template, by mnemonic
Apply(f, c, value) ==
    CASE f = "cmp" -> cmp_common(c, value)
      [] f = "eor" -> eor_common(c, value)
      [] f = "ldx" -> ldx_common(c, value)

get_x_index(c) == c.x_index

get_y_index(c) == c.y_index

\* the closure get_index handed to an indexed template
Index(get_index, c) == IF get_index = "x" THEN get_x_index(c) ELSE get_y_index(c)

-----------------------------------------------------------------------------
(* Results of one cycle *)

\* ControlFlow::Continue(()): nothing handed to f
Continue(c, b) == [cpu |-> c, flow |-> "Continue", bus |-> b, handed |-> <<>>]

\* f(cpu, value) followed by ControlFlow::Break(())
BreakWith(f, c, b, value) ==
    [cpu |-> Apply(f, c, value), flow |-> "Break", bus |-> b, handed |-> <<value>>]

\* unreachable!(): panics with the macro's fixed message, no arguments formatted in
Unreachable(c) ==
    [cpu |-> c, flow |-> "Unreachable", bus |-> <<>>, handed |-> <<>>,
     panic |-> [message |-> "internal error: entered unreachable code", args |-> <<>>]]

\* unimplemented!(): panics with the macro's fixed message, no arguments formatted in
Unimplemented(c) ==
    [cpu |-> c, flow |-> "Unimplemented", bus |-> <<>>, handed |-> <<>>,
     panic |-> [message |-> "not implemented", args |-> <<>>]]

\* a match arm that calls the handler of another mnemonic (lda::immediate,
\* sta::zeropage, ...): the call is made, what it does lies outside this model
Elsewhere(c) ==
    [cpu |-> c, flow |-> "Elsewhere", bus |-> <<>>, handed |-> <<>>,
     arm |-> c.current_opcode]

\* a checked addition that overflows: with overflow checks (debug builds) it
\* panics with the Cpu as it stood, without them (release builds) it wraps and
\* the call goes on to `unchecked`
Overflow(c, b, unchecked) ==
    [cpu |-> c, flow |-> "Overflow", bus |-> b, handed |-> <<>>,
     panic |-> [message |-> "attempt to add with overflow", args |-> <<>>],
     unchecked |-> unchecked]

\* the build profiles, and the outcome of a call under each
Builds == {"debug", "release"}

Built(r, build) ==
    IF r.flow = "Overflow" /\ build = "release" THEN r.unchecked ELSE r

-----------------------------------------------------------------------------
(* Read templates (templates/read.rs) *)

\* variant: f is invoked but the cycle falls through to Continue
immediate_no_break(c, m, f) ==
    CASE c.current_cycle = 1 ->
            LET r == fetch_from_pc(c, m)
            IN  [BreakWith(f, r.cpu, r.bus, r.value) EXCEPT !.flow = "Continue"]
      [] OTHER -> Unreachable(c)

immediate(c, m, f) ==
    CASE c.current_cycle = 1 ->
            LET r == fetch_from_pc(c, m)
            IN  BreakWith(f, r.cpu, r.bus, r.value)
      [] OTHER -> Unreachable(c)

\* zeropage without the `return ControlFlow::Break(())` after f
zeropage_no_break(c, m, f) ==
    CASE c.current_cycle = 1 ->
            LET r == fetch_from_pc(c, m)
            IN  Continue([r.cpu EXCEPT !.effective_address = r.value], r.bus)
      [] c.current_cycle = 2 ->
            LET value == load(m, c.effective_address)
            IN  [BreakWith(f, c, <<LoadAt(c.effective_address)>>, value)
                    EXCEPT !.flow = "Continue"]
      [] OTHER -> Unreachable(c)

zeropage(c, m, f) ==
    CASE c.current_cycle = 1 ->
            LET r == fetch_from_pc(c, m)
            IN  Continue([r.cpu EXCEPT !.effective_address = r.value], r.bus)
      [] c.current_cycle = 2 ->
            LET value == load(m, c.effective_address)
            IN  BreakWith(f, c, <<LoadAt(c.effective_address)>>, value)
      [] OTHER -> Unreachable(c)

\* variant: the dummy read of cycle 2 is optimised away
zeropage_indexed_no_dummy_read(c, m, get_index, f) ==
    CASE c.current_cycle = 1 ->
            LET r == fetch_from_pc(c, m)
            IN  Continue([r.cpu EXCEPT !.effective_address = r.value], r.bus)
      [] c.current_cycle = 2 ->
            Continue([c EXCEPT !.effective_address =
                         wrapping_add_u8(as_u8(c.effective_address), Index(get_index, c))],
                     <<>>)
      [] c.current_cycle = 3 ->
            LET value == load(m, c.effective_address)
            IN  BreakWith(f, c, <<LoadAt(c.effective_address)>>, value)
      [] OTHER -> Unreachable(c)

\* variant: the index is added in 16 bits, so the sum can leave the zero page
zeropage_indexed_no_wrap(c, m, get_index, f) ==
    CASE c.current_cycle = 1 ->
            LET r == fetch_from_pc(c, m)
            IN  Continue([r.cpu EXCEPT !.effective_address = r.value], r.bus)
      [] c.current_cycle = 2 ->
            Continue([c EXCEPT !.effective_address =
                         wrapping_add_u16(c.effective_address, Index(get_index, c))],
                     <<LoadAt(c.effective_address)>>)
      [] c.current_cycle = 3 ->
            LET value == load(m, c.effective_address)
            IN  BreakWith(f, c, <<LoadAt(c.effective_address)>>, value)
      [] OTHER -> Unreachable(c)

\* zeropage_indexed adding the index before the dummy read
zeropage_indexed_index_first(c, m, get_index, f) ==
    CASE c.current_cycle = 1 ->
            LET r == fetch_from_pc(c, m)
            IN  Continue([r.cpu EXCEPT !.effective_address = r.value], r.bus)
      [] c.current_cycle = 2 ->
            LET indexed == wrapping_add_u8(as_u8(c.effective_address),
                                           Index(get_index, c))
            IN  Continue([c EXCEPT !.effective_address = indexed], <<LoadAt(indexed)>>)
      [] c.current_cycle = 3 ->
            LET value == load(m, c.effective_address)
            IN  BreakWith(f, c, <<LoadAt(c.effective_address)>>, value)
      [] OTHER -> Unreachable(c)

\* zeropage_indexed with the dummy cycle of a write template: it stores the
\* accumulator at the un-indexed address instead of loading from it
zeropage_indexed_dummy_write(c, m, get_index, f) ==
    CASE c.current_cycle = 1 ->
            LET r == fetch_from_pc(c, m)
            IN  Continue([r.cpu EXCEPT !.effective_address = r.value], r.bus)
      [] c.current_cycle = 2 ->
            Continue([c EXCEPT !.effective_address =
                         wrapping_add_u8(as_u8(c.effective_address), Index(get_index, c))],
                     <<StoreAt(c.effective_address, c.accumulator)>>)
      [] c.current_cycle = 3 ->
            LET value == load(m, c.effective_address)
            IN  BreakWith(f, c, <<LoadAt(c.effective_address)>>, value)
      [] OTHER -> Unreachable(c)

zeropage_indexed(c, m, get_index, f) ==
    CASE c.current_cycle = 1 ->
            LET r == fetch_from_pc(c, m)
            IN  Continue([r.cpu EXCEPT !.effective_address = r.value], r.bus)
      [] c.current_cycle = 2 ->
            \* the dummy read, then the index is added within the zero page
            Continue([c EXCEPT !.effective_address =
                         wrapping_add_u8(as_u8(c.effective_address), Index(get_index, c))],
                     <<LoadAt(c.effective_address)>>)
      [] c.current_cycle = 3 ->
            LET value == load(m, c.effective_address)
            IN  BreakWith(f, c, <<LoadAt(c.effective_address)>>, value)
      [] OTHER -> Unreachable(c)

zeropage_x(c, m, f) == zeropage_indexed(c, m, "x", f)

zeropage_y(c, m, f) == zeropage_indexed(c, m, "y", f)

\* variant: the high byte is read at PC without advancing PC
absolute_no_advance(c, m, f) ==
    CASE c.current_cycle = 1 ->
            LET r == fetch_from_pc(c, m)
            IN  Continue([r.cpu EXCEPT !.effective_address = r.value], r.bus)
      [] c.current_cycle = 2 ->
            Continue([c EXCEPT !.effective_address =
                         BitOr(@, shl8_u16(load(m, c.program_counter)))],
                     <<LoadAt(c.program_counter)>>)
      [] c.current_cycle = 3 ->
            LET value == load(m, c.effective_address)
            IN  BreakWith(f, c, <<LoadAt(c.effective_address)>>, value)
      [] OTHER -> Unreachable(c)

absolute(c, m, f) ==
    CASE c.current_cycle = 1 ->
            LET r == fetch_from_pc(c, m)
            IN  Continue([r.cpu EXCEPT !.effective_address = r.value], r.bus)
      [] c.current_cycle = 2 ->
            LET r == fetch_from_pc(c, m)
            IN  Continue([r.cpu EXCEPT !.effective_address = BitOr(@, shl8_u16(r.value))],
                         r.bus)
      [] c.current_cycle = 3 ->
            LET value == load(m, c.effective_address)
            IN  BreakWith(f, c, <<LoadAt(c.effective_address)>>, value)
      [] OTHER -> Unreachable(c)

\* variant: the extra cycle is always taken, as in a store template
absolute_indexed_always_penalty(c, m, get_index, f) ==
    CASE c.current_cycle = 1 ->
            LET r == fetch_from_pc(c, m)
            IN  Continue([r.cpu EXCEPT !.effective_address = r.value], r.bus)
      [] c.current_cycle = 2 ->
            LET r                 == fetch_from_pc(c, m)
                address_high_byte == r.value
                sum               == overflowing_add_u8(as_u8(r.cpu.effective_address),
                                                        Index(get_index, r.cpu))
                address_low_byte  == sum[1]
                carry             == sum[2]
            IN  Continue([r.cpu EXCEPT
                            !.effective_address =
                                BitOr(shl8_u16(address_high_byte), address_low_byte),
                            !.internal_flags =
                                flags_set(@, "EFFECTIVE_ADDR_CARRY", carry)],
                         r.bus)
      [] c.current_cycle = 3 ->
            Continue([c EXCEPT !.effective_address =
                         IF "EFFECTIVE_ADDR_CARRY" \in c.internal_flags
                         THEN wrapping_add_u16(@, 256) ELSE @],
                     <<LoadAt(c.effective_address)>>)
      [] c.current_cycle = 4 ->
            LET value == load(m, c.effective_address)
            IN  BreakWith(f, c, <<LoadAt(c.effective_address)>>, value)
      [] OTHER -> Unreachable(c)

\* absolute_indexed whose fix-up adds 1 instead of 1 << 8
absolute_indexed_fixup_low(c, m, get_index, f) ==
    CASE c.current_cycle = 1 ->
            LET r == fetch_from_pc(c, m)
            IN  Continue([r.cpu EXCEPT !.effective_address = r.value], r.bus)
      [] c.current_cycle = 2 ->
            LET r                 == fetch_from_pc(c, m)
                address_high_byte == r.value
                sum               == overflowing_add_u8(as_u8(r.cpu.effective_address),
                                                        Index(get_index, r.cpu))
                address_low_byte  == sum[1]
                carry             == sum[2]
            IN  Continue([r.cpu EXCEPT
                            !.effective_address =
                                BitOr(shl8_u16(address_high_byte), address_low_byte),
                            !.internal_flags =
                                flags_set(@, "EFFECTIVE_ADDR_CARRY", carry)],
                         r.bus)
      [] c.current_cycle = 3 ->
            LET value == load(m, c.effective_address)
            IN  IF "EFFECTIVE_ADDR_CARRY" \in c.internal_flags
                THEN Continue([c EXCEPT !.effective_address = wrapping_add_u16(@, 1)],
                              <<LoadAt(c.effective_address)>>)
                ELSE BreakWith(f, c, <<LoadAt(c.effective_address)>>, value)
      [] c.current_cycle = 4 ->
            LET value == load(m, c.effective_address)
            IN  BreakWith(f, c, <<LoadAt(c.effective_address)>>, value)
      [] OTHER -> Unreachable(c)

\* absolute_indexed that only ever sets EFFECTIVE_ADDR_CARRY, never clears it
absolute_indexed_sticky_carry(c, m, get_index, f) ==
    CASE c.current_cycle = 1 ->
            LET r == fetch_from_pc(c, m)
            IN  Continue([r.cpu EXCEPT !.effective_address = r.value], r.bus)
      [] c.current_cycle = 2 ->
            LET r                 == fetch_from_pc(c, m)
                address_high_byte == r.value
                sum               == overflowing_add_u8(as_u8(r.cpu.effective_address),
                                                        Index(get_index, r.cpu))
                address_low_byte  == sum[1]
                carry             == sum[2]
            IN  Continue([r.cpu EXCEPT
                            !.effective_address =
                                BitOr(shl8_u16(address_high_byte), address_low_byte),
                            !.internal_flags =
                                IF carry THEN @ \cup {"EFFECTIVE_ADDR_CARRY"} ELSE @],
                         r.bus)
      [] c.current_cycle = 3 ->
            LET value == load(m, c.effective_address)
            IN  IF "EFFECTIVE_ADDR_CARRY" \in c.internal_flags
                THEN Continue([c EXCEPT !.effective_address = wrapping_add_u16(@, 256)],
                              <<LoadAt(c.effective_address)>>)
                ELSE BreakWith(f, c, <<LoadAt(c.effective_address)>>, value)
      [] c.current_cycle = 4 ->
            LET value == load(m, c.effective_address)
            IN  BreakWith(f, c, <<LoadAt(c.effective_address)>>, value)
      [] OTHER -> Unreachable(c)

absolute_indexed(c, m, get_index, f) ==
    CASE c.current_cycle = 1 ->
            LET r == fetch_from_pc(c, m)
            IN  Continue([r.cpu EXCEPT !.effective_address = r.value], r.bus)
      [] c.current_cycle = 2 ->
            LET r                 == fetch_from_pc(c, m)
                address_high_byte == r.value
                sum               == overflowing_add_u8(as_u8(r.cpu.effective_address),
                                                        Index(get_index, r.cpu))
                address_low_byte  == sum[1]
                carry             == sum[2]
            IN  Continue([r.cpu EXCEPT
                            !.effective_address =
                                BitOr(shl8_u16(address_high_byte), address_low_byte),
                            !.internal_flags =
                                flags_set(@, "EFFECTIVE_ADDR_CARRY", carry)],
                         r.bus)
      [] c.current_cycle = 3 ->
            LET value == load(m, c.effective_address)
            IN  IF "EFFECTIVE_ADDR_CARRY" \in c.internal_flags
                THEN \* blown through a page: fix up the effective address
                     Continue([c EXCEPT !.effective_address = wrapping_add_u16(@, 256)],
                              <<LoadAt(c.effective_address)>>)
                ELSE BreakWith(f, c, <<LoadAt(c.effective_address)>>, value)
      [] c.current_cycle = 4 ->
            LET value == load(m, c.effective_address)
            IN  BreakWith(f, c, <<LoadAt(c.effective_address)>>, value)
      [] OTHER -> Unreachable(c)

absolute_x(c, m, f) == absolute_indexed(c, m, "x", f)

absolute_y(c, m, f) == absolute_indexed(c, m, "y", f)

\* variant: the dummy-read cycle is missing, X is added when the pointer is fetched
indirect_x_no_dummy(c, m, f) ==
    CASE c.current_cycle = 1 ->
            LET r == fetch_from_pc(c, m)
            IN  Continue([r.cpu EXCEPT !.pointer_address =
                             wrapping_add_u8(r.value, c.x_index)], r.bus)
      [] c.current_cycle = 2 ->
            Continue([c EXCEPT !.effective_address = load(m, c.pointer_address)],
                     <<LoadAt(c.pointer_address)>>)
      [] c.current_cycle = 3 ->
            LET high_address == wrapping_add_u8(c.pointer_address, 1)
            IN  Continue([c EXCEPT !.effective_address =
                             BitOr(@, shl8_u16(load(m, high_address)))],
                         <<LoadAt(high_address)>>)
      [] c.current_cycle = 4 ->
            LET value == load(m, c.effective_address)
            IN  BreakWith(f, c, <<LoadAt(c.effective_address)>>, value)
      [] OTHER -> Unreachable(c)

\* indirect_x reading the high address byte on cycle 3 and the low one on cycle 4
indirect_x_high_first(c, m, f) ==
    CASE c.current_cycle = 1 ->
            LET r == fetch_from_pc(c, m)
            IN  Continue([r.cpu EXCEPT !.pointer_address = r.value], r.bus)
      [] c.current_cycle = 2 ->
            Continue([c EXCEPT !.pointer_address = wrapping_add_u8(@, c.x_index)],
                     <<LoadAt(c.pointer_address)>>)
      [] c.current_cycle = 3 ->
            LET high_address == wrapping_add_u8(c.pointer_address, 1)
            IN  Continue([c EXCEPT !.effective_address = shl8_u16(load(m, high_address))],
                         <<LoadAt(high_address)>>)
      [] c.current_cycle = 4 ->
            Continue([c EXCEPT !.effective_address = BitOr(@, load(m, c.pointer_address))],
                     <<LoadAt(c.pointer_address)>>)
      [] c.current_cycle = 5 ->
            LET value == load(m, c.effective_address)
            IN  BreakWith(f, c, <<LoadAt(c.effective_address)>>, value)
      [] OTHER -> Unreachable(c)

indirect_x(c, m, f) ==
    CASE c.current_cycle = 1 ->
            LET r == fetch_from_pc(c, m)
            IN  Continue([r.cpu EXCEPT !.pointer_address = r.value], r.bus)
      [] c.current_cycle = 2 ->
            \* the dummy read, then X is added within the zero page
            Continue([c EXCEPT !.pointer_address = wrapping_add_u8(@, c.x_index)],
                     <<LoadAt(c.pointer_address)>>)
      [] c.current_cycle = 3 ->
            Continue([c EXCEPT !.effective_address = load(m, c.pointer_address)],
                     <<LoadAt(c.pointer_address)>>)
      [] c.current_cycle = 4 ->
            LET high_address == wrapping_add_u8(c.pointer_address, 1)
            IN  Continue([c EXCEPT !.effective_address =
                             BitOr(@, shl8_u16(load(m, high_address)))],
                         <<LoadAt(high_address)>>)
      [] c.current_cycle = 5 ->
            LET value == load(m, c.effective_address)
            IN  BreakWith(f, c, <<LoadAt(c.effective_address)>>, value)
      [] OTHER -> Unreachable(c)

\* variant: the page-cross fix-up is forgotten, the cycle-4 load always completes
indirect_y_no_fixup(c, m, f) ==
    CASE c.current_cycle = 1 ->
            LET r == fetch_from_pc(c, m)
            IN  Continue([r.cpu EXCEPT !.pointer_address = r.value], r.bus)
      [] c.current_cycle = 2 ->
            Continue([c EXCEPT !.effective_address = load(m, c.pointer_address)],
                     <<LoadAt(c.pointer_address)>>)
      [] c.current_cycle = 3 ->
            LET high_address      == wrapping_add_u8(c.pointer_address, 1)
                address_high_byte == load(m, high_address)
                sum               == overflowing_add_u8(as_u8(c.effective_address),
                                                        c.y_index)
            IN  Continue([c EXCEPT
                            !.effective_address =
                                BitOr(shl8_u16(address_high_byte), sum[1]),
                            !.internal_flags =
                                flags_set(@, "EFFECTIVE_ADDR_CARRY", sum[2])],
                         <<LoadAt(high_address)>>)
      [] c.current_cycle = 4 ->
            LET value == load(m, c.effective_address)
            IN  BreakWith(f, c, <<LoadAt(c.effective_address)>>, value)
      [] OTHER -> Unreachable(c)

\* variant: the pointer's high byte is read at pointer + 1 computed in 16 bits
indirect_y_no_wrap(c, m, f) ==
    CASE c.current_cycle = 1 ->
            LET r == fetch_from_pc(c, m)
            IN  Continue([r.cpu EXCEPT !.pointer_address = r.value], r.bus)
      [] c.current_cycle = 2 ->
            Continue([c EXCEPT !.effective_address = load(m, c.pointer_address)],
                     <<LoadAt(c.pointer_address)>>)
      [] c.current_cycle = 3 ->
            LET high_address      == wrapping_add_u16(c.pointer_address, 1)
                address_high_byte == load(m, high_address)
                sum               == overflowing_add_u8(as_u8(c.effective_address),
                                                        c.y_index)
            IN  Continue([c EXCEPT
                            !.effective_address =
                                BitOr(shl8_u16(address_high_byte), sum[1]),
                            !.internal_flags =
                                flags_set(@, "EFFECTIVE_ADDR_CARRY", sum[2])],
                         <<LoadAt(high_address)>>)
      [] c.current_cycle = 4 ->
            LET value == load(m, c.effective_address)
            IN  IF "EFFECTIVE_ADDR_CARRY" \in c.internal_flags
                THEN Continue([c EXCEPT !.effective_address = wrapping_add_u16(@, 256)],
                              <<LoadAt(c.effective_address)>>)
                ELSE BreakWith(f, c, <<LoadAt(c.effective_address)>>, value)
      [] c.current_cycle = 5 ->
            LET value == load(m, c.effective_address)
            IN  BreakWith(f, c, <<LoadAt(c.effective_address)>>, value)
      [] OTHER -> Unreachable(c)

\* indirect_y indexing with X instead of Y
indirect_y_adds_x(c, m, f) ==
    CASE c.current_cycle = 1 ->
            LET r == fetch_from_pc(c, m)
            IN  Continue([r.cpu EXCEPT !.pointer_address = r.value], r.bus)
      [] c.current_cycle = 2 ->
            Continue([c EXCEPT !.effective_address = load(m, c.pointer_address)],
                     <<LoadAt(c.pointer_address)>>)
      [] c.current_cycle = 3 ->
            LET high_address      == wrapping_add_u8(c.pointer_address, 1)
                address_high_byte == load(m, high_address)
                sum               == overflowing_add_u8(as_u8(c.effective_address),
                                                        c.x_index)
                address_low_byte  == sum[1]
                carry             == sum[2]
            IN  Continue([c EXCEPT
                            !.effective_address =
                                BitOr(shl8_u16(address_high_byte), address_low_byte),
                            !.internal_flags =
                                flags_set(@, "EFFECTIVE_ADDR_CARRY", carry)],
                         <<LoadAt(high_address)>>)
      [] c.current_cycle = 4 ->
            LET value == load(m, c.effective_address)
            IN  IF "EFFECTIVE_ADDR_CARRY" \in c.internal_flags
                THEN Continue([c EXCEPT !.effective_address = wrapping_add_u16(@, 256)],
                              <<LoadAt(c.effective_address)>>)
                ELSE BreakWith(f, c, <<LoadAt(c.effective_address)>>, value)
      [] c.current_cycle = 5 ->
            LET value == load(m, c.effective_address)
            IN  BreakWith(f, c, <<LoadAt(c.effective_address)>>, value)
      [] OTHER -> Unreachable(c)

\* indirect_y calling f with the cycle-4 byte before it looks at the carry
indirect_y_eager_handler(c, m, f) ==
    CASE c.current_cycle = 1 ->
            LET r == fetch_from_pc(c, m)
            IN  Continue([r.cpu EXCEPT !.pointer_address = r.value], r.bus)
      [] c.current_cycle = 2 ->
            Continue([c EXCEPT !.effective_address = load(m, c.pointer_address)],
                     <<LoadAt(c.pointer_address)>>)
      [] c.current_cycle = 3 ->
            LET high_address      == wrapping_add_u8(c.pointer_address, 1)
                address_high_byte == load(m, high_address)
                sum               == overflowing_add_u8(as_u8(c.effective_address),
                                                        c.y_index)
                address_low_byte  == sum[1]
                carry             == sum[2]
            IN  Continue([c EXCEPT
                            !.effective_address =
                                BitOr(shl8_u16(address_high_byte), address_low_byte),
                            !.internal_flags =
                                flags_set(@, "EFFECTIVE_ADDR_CARRY", carry)],
                         <<LoadAt(high_address)>>)
      [] c.current_cycle = 4 ->
            LET value == load(m, c.effective_address)
                done  == BreakWith(f, c, <<LoadAt(c.effective_address)>>, value)
            IN  IF "EFFECTIVE_ADDR_CARRY" \in c.internal_flags
                THEN [done EXCEPT
                        !.flow = "Continue",
                        !.cpu.effective_address = wrapping_add_u16(@, 256)]
                ELSE done
      [] c.current_cycle = 5 ->
            LET value == load(m, c.effective_address)
            IN  BreakWith(f, c, <<LoadAt(c.effective_address)>>, value)
      [] OTHER -> Unreachable(c)

\* indirect_y without the `return ControlFlow::Break(())` of its last cycle
indirect_y_no_break(c, m, f) ==
    CASE c.current_cycle = 1 ->
            LET r == fetch_from_pc(c, m)
            IN  Continue([r.cpu EXCEPT !.pointer_address = r.value], r.bus)
      [] c.current_cycle = 2 ->
            Continue([c EXCEPT !.effective_address = load(m, c.pointer_address)],
                     <<LoadAt(c.pointer_address)>>)
      [] c.current_cycle = 3 ->
            LET high_address      == wrapping_add_u8(c.pointer_address, 1)
                address_high_byte == load(m, high_address)
                sum               == overflowing_add_u8(as_u8(c.effective_address),
                                                        c.y_index)
                address_low_byte  == sum[1]
                carry             == sum[2]
            IN  Continue([c EXCEPT
                            !.effective_address =
                                BitOr(shl8_u16(address_high_byte), address_low_byte),
                            !.internal_flags =
                                flags_set(@, "EFFECTIVE_ADDR_CARRY", carry)],
                         <<LoadAt(high_address)>>)
      [] c.current_cycle = 4 ->
            LET value == load(m, c.effective_address)
            IN  IF "EFFECTIVE_ADDR_CARRY" \in c.internal_flags
                THEN Continue([c EXCEPT !.effective_address = wrapping_add_u16(@, 256)],
                              <<LoadAt(c.effective_address)>>)
                ELSE BreakWith(f, c, <<LoadAt(c.effective_address)>>, value)
      [] c.current_cycle = 5 ->
            LET value == load(m, c.effective_address)
            IN  [BreakWith(f, c, <<LoadAt(c.effective_address)>>, value)
                    EXCEPT !.flow = "Continue"]
      [] OTHER -> Unreachable(c)

indirect_y(c, m, f) ==
    CASE c.current_cycle = 1 ->
            LET r == fetch_from_pc(c, m)
            IN  Continue([r.cpu EXCEPT !.pointer_address = r.value], r.bus)
      [] c.current_cycle = 2 ->
            Continue([c EXCEPT !.effective_address = load(m, c.pointer_address)],
                     <<LoadAt(c.pointer_address)>>)
      [] c.current_cycle = 3 ->
            LET high_address      == wrapping_add_u8(c.pointer_address, 1)
                address_high_byte == load(m, high_address)
                sum               == overflowing_add_u8(as_u8(c.effective_address),
                                                        c.y_index)
                address_low_byte  == sum[1]
                carry             == sum[2]
            IN  Continue([c EXCEPT
                            !.effective_address =
                                BitOr(shl8_u16(address_high_byte), address_low_byte),
                            !.internal_flags =
                                flags_set(@, "EFFECTIVE_ADDR_CARRY", carry)],
                         <<LoadAt(high_address)>>)
      [] c.current_cycle = 4 ->
            LET value == load(m, c.effective_address)
            IN  IF "EFFECTIVE_ADDR_CARRY" \in c.internal_flags
                THEN Continue([c EXCEPT !.effective_address = wrapping_add_u16(@, 256)],
                              <<LoadAt(c.effective_address)>>)
                ELSE BreakWith(f, c, <<LoadAt(c.effective_address)>>, value)
      [] c.current_cycle = 5 ->
            LET value == load(m, c.effective_address)
            IN  BreakWith(f, c, <<LoadAt(c.effective_address)>>, value)
      [] OTHER -> Unreachable(c)

-----------------------------------------------------------------------------
(* Read templates of templates.rs, over a CpuState *)

read_immediate(c, m, f) ==
    CASE c.current_cycle = 1 ->
            LET r == fetch_from_pc(c, m)
            IN  BreakWith(f, r.cpu, r.bus, r.value)
      [] OTHER -> Unreachable(c)

read_zeropage(c, m, f) ==
    CASE c.current_cycle = 1 ->
            LET r == fetch_from_pc(c, m)
            IN  Continue([r.cpu EXCEPT !.effective_address = r.value], r.bus)
      [] c.current_cycle = 2 ->
            LET value == load(m, c.effective_address)
            IN  BreakWith(f, c, <<LoadAt(c.effective_address)>>, value)
      [] OTHER -> Unreachable(c)

read_zeropage_indexed(c, m, get_index, f) ==
    CASE c.current_cycle = 1 ->
            LET r == fetch_from_pc(c, m)
            IN  Continue([r.cpu EXCEPT !.effective_address = r.value], r.bus)
      [] c.current_cycle = 2 ->
            \* the dummy read; effective_address += index (a checked u16
            \* addition); effective_address &= 0xFF
            LET sum       == c.effective_address + Index(get_index, c)
                dummy     == <<LoadAt(c.effective_address)>>
                unchecked == Continue([c EXCEPT !.effective_address =
                                          (sum % 65536) % 256], dummy)
            IN  IF sum > 65535 THEN Overflow(c, dummy, unchecked) ELSE unchecked
      [] c.current_cycle = 3 ->
            LET value == load(m, c.effective_address)
            IN  BreakWith(f, c, <<LoadAt(c.effective_address)>>, value)
      [] OTHER -> Unreachable(c)

read_absolute(c, m, f) ==
    CASE c.current_cycle = 1 ->
            LET r == fetch_from_pc(c, m)
            IN  Continue([r.cpu EXCEPT !.effective_address = r.value], r.bus)
      [] c.current_cycle = 2 ->
            LET r == fetch_from_pc(c, m)
            IN  Continue([r.cpu EXCEPT !.effective_address = BitOr(@, shl8_u16(r.value))],
                         r.bus)
      [] c.current_cycle = 3 ->
            LET value == load(m, c.effective_address)
            IN  BreakWith(f, c, <<LoadAt(c.effective_address)>>, value)
      [] OTHER -> Unreachable(c)

read_absolute_indexed(c, m, get_index, f) ==
    CASE c.current_cycle = 1 ->
            LET r == fetch_from_pc(c, m)
            IN  Continue([r.cpu EXCEPT !.effective_address = r.value], r.bus)
      [] c.current_cycle = 2 ->
            LET r                 == fetch_from_pc(c, m)
                address_high_byte == r.value
                sum               == overflowing_add_u8(as_u8(r.cpu.effective_address),
                                                        Index(get_index, r.cpu))
                address_low_byte  == sum[1]
                carry             == sum[2]
            IN  \* the carry is kept in the status register's IGNORED_FLAG bit
                Continue([r.cpu EXCEPT
                            !.effective_address =
                                BitOr(shl8_u16(address_high_byte), address_low_byte),
                            !.flags = flags_set(@, "IGNORED_FLAG", carry)],
                         r.bus)
      [] c.current_cycle = 3 ->
            LET value == load(m, c.effective_address)
            IN  IF "IGNORED_FLAG" \in c.flags
                THEN Continue([c EXCEPT !.effective_address = wrapping_add_u16(@, 256)],
                              <<LoadAt(c.effective_address)>>)
                ELSE BreakWith(f, c, <<LoadAt(c.effective_address)>>, value)
      [] c.current_cycle = 4 ->
            LET value == load(m, c.effective_address)
            IN  BreakWith(f, c, <<LoadAt(c.effective_address)>>, value)
      [] OTHER -> Unreachable(c)

-----------------------------------------------------------------------------
(* The dispatcher *)

\* the opcodes whose mnemonic handler the match routes to a read template
Handled ==
    { "CmpImmediate", "CmpZeroPage", "CmpZeroPageX", "CmpAbsolute", "CmpAbsoluteX",
      "CmpAbsoluteY", "CmpIndirectX", "CmpIndirectY",
      "EorImmediate", "EorZeroPage", "EorZeroPageX", "EorAbsolute", "EorAbsoluteX",
      "EorAbsoluteY", "EorIndirectX", "EorIndirectY",
      "LdxZeroPageY" }

\* the opcodes of the other arms of the match: every variant but those above
\* and Unimplemented
OtherArms == { e[2] : e \in OpCodeTable } \ (Handled \cup {"Unimplemented"})

\* the match on cpu.current_opcode
dispatch_handler(c, m) ==
    CASE c.current_opcode = "CmpImmediate" -> immediate(c, m, "cmp")
      [] c.current_opcode = "CmpZeroPage"  -> zeropage(c, m, "cmp")
      [] c.current_opcode = "CmpZeroPageX" -> zeropage_x(c, m, "cmp")
      [] c.current_opcode = "CmpAbsolute"  -> absolute(c, m, "cmp")
      [] c.current_opcode = "CmpAbsoluteX" -> absolute_x(c, m, "cmp")
      [] c.current_opcode = "CmpAbsoluteY" -> absolute_y(c, m, "cmp")
      [] c.current_opcode = "CmpIndirectX" -> indirect_x(c, m, "cmp")
      [] c.current_opcode = "CmpIndirectY" -> indirect_y(c, m, "cmp")
      [] c.current_opcode = "EorImmediate" -> immediate(c, m, "eor")
      [] c.current_opcode = "EorZeroPage"  -> zeropage(c, m, "eor")
      [] c.current_opcode = "EorZeroPageX" -> zeropage_x(c, m, "eor")
      [] c.current_opcode = "EorAbsolute"  -> absolute(c, m, "eor")
      [] c.current_opcode = "EorAbsoluteX" -> absolute_x(c, m, "eor")
      [] c.current_opcode = "EorAbsoluteY" -> absolute_y(c, m, "eor")
      [] c.current_opcode = "EorIndirectX" -> indirect_x(c, m, "eor")
      [] c.current_opcode = "EorIndirectY" -> indirect_y(c, m, "eor")
      [] c.current_opcode = "LdxZeroPageY" -> zeropage_y(c, m, "ldx")
      [] c.current_opcode \in OtherArms -> Elsewhere(c)
      [] OTHER -> Unimplemented(c)

\* variant: the decoded opcode is dropped instead of stored
fetch_opcode_no_store(c, m) ==
    LET r == fetch_from_pc(c, m)
    IN  Continue(r.cpu, r.bus)

\* the first cycle: fetch and decode the opcode
fetch_opcode(c, m) ==
    LET r == fetch_from_pc(c, m)
    IN  Continue([r.cpu EXCEPT !.current_opcode = OpCodeFrom(r.value)], r.bus)

\* dispatch_current_opcode taking the fetch branch on cycle 1 as well
dispatch_current_opcode_refetch(c, m) ==
    IF c.current_cycle <= 1
    THEN fetch_opcode(c, m)
    ELSE dispatch_handler(c, m)

dispatch_current_opcode(c, m) ==
    IF c.current_cycle = 0
    THEN fetch_opcode(c, m)
    ELSE dispatch_handler(c, m)

\* what the caller of the dispatcher does with its result
next_cycle(c, result) ==
    IF result = "Break" THEN 0 ELSE c.current_cycle + 1

\* the addressing mode of an opcode, by the template its match arm calls
Mode(opcode) ==
    CASE opcode \in {"CmpImmediate", "EorImmediate"} -> "immediate"
      [] opcode \in {"CmpZeroPage", "EorZeroPage"} -> "zeropage"
      [] opcode \in {"CmpZeroPageX", "EorZeroPageX"} -> "zeropage_x"
      [] opcode \in {"LdxZeroPageY"} -> "zeropage_y"
      [] opcode \in {"CmpAbsolute", "EorAbsolute"} -> "absolute"
      [] opcode \in {"CmpAbsoluteX", "EorAbsoluteX"} -> "absolute_x"
      [] opcode \in {"CmpAbsoluteY", "EorAbsoluteY"} -> "absolute_y"
      [] opcode \in {"CmpIndirectX", "EorIndirectX"} -> "indirect_x"
      [] opcode \in {"CmpIndirectY", "EorIndirectY"} -> "indirect_y"
      [] OTHER -> "none"

\* the mnemonic of a handled opcode, as the closure name Apply takes
Mnemonic(opcode) ==
    CASE opcode \in {"CmpImmediate", "CmpZeroPage", "CmpZeroPageX", "CmpAbsolute",
                     "CmpAbsoluteX", "CmpAbsoluteY", "CmpIndirectX", "CmpIndirectY"} -> "cmp"
      [] opcode \in {"EorImmediate", "EorZeroPage", "EorZeroPageX", "EorAbsolute",
                     "EorAbsoluteX", "EorAbsoluteY", "EorIndirectX", "EorIndirectY"} -> "eor"
      [] opcode = "LdxZeroPageY" -> "ldx"
      [] OTHER -> "none"

\* the side-by-side run: the same cycle-0 fetch, then the templates.rs template of
\* the opcode's addressing mode with the opcode's handler
legacy_dispatch(c, m) ==
    IF c.current_cycle = 0
    THEN fetch_opcode(c, m)
    ELSE LET mode == Mode(c.current_opcode)
             f    == Mnemonic(c.current_opcode)
         IN  CASE mode = "immediate"  -> read_immediate(c, m, f)
               [] mode = "zeropage"   -> read_zeropage(c, m, f)
               [] mode = "zeropage_x" -> read_zeropage_indexed(c, m, "x", f)
               [] mode = "zeropage_y" -> read_zeropage_indexed(c, m, "y", f)
               [] mode = "absolute"   -> read_absolute(c, m, f)
               [] mode = "absolute_x" -> read_absolute_indexed(c, m, "x", f)
               [] mode = "absolute_y" -> read_absolute_indexed(c, m, "y", f)
               [] OTHER -> Elsewhere(c)

-----------------------------------------------------------------------------
(* The initial states: a Cpu, and a memory holding a program at PC *)

AllFlags ==
    { "CARRY", "ZERO", "INTERRUPT_DISABLE", "DECIMAL", "BREAK", "IGNORED_FLAG",
      "OVERFLOW", "NEGATIVE" }

\* register values tried: 0x00, 0x01, 0x7B, 0xFF
RegVals == {0, 1, 123, 255}

\* operand low bytes tried: 0x00, 0x85, 0xFF
ArgLo == {0, 133, 255}

\* operand high bytes tried: 0x04, 0xFF
ArgHi == {4, 255}

\* where the program starts: 0x0200, 0x80FD
StartPCs == {512, 33021}

\* the status register before the program runs
StartFlags == { {}, AllFlags \ {"ZERO"} }

\* what an earlier instruction may have left in the scratch fields
StartScratch ==
    { [opcode |-> "Unimplemented", effective_address |-> 0, pointer_address |-> 0,
       internal_flags |-> {}],
      [opcode |-> "EorAbsoluteX", effective_address |-> 65535, pointer_address |-> 254,
       internal_flags |-> {"EFFECTIVE_ADDR_CARRY"}] }

\* opcode bytes of the instructions with one operand byte, with two, and bytes
\* that select no handler (0 is Unimplemented itself, 2 and 255 are outside the
\* table); a program runs through its list in this order
OneOperand == <<201, 197, 213, 193, 209, 73, 69, 85, 65, 81, 182>>

TwoOperands == <<205, 221, 217, 77, 93, 89>>

NoOperand == <<2, 0, 255>>

Range(seq) == { seq[i] : i \in 1 .. Len(seq) }

\* the instructions tried, as byte strings
Instructions ==
    { <<op, lo>> : op \in Range(OneOperand), lo \in ArgLo }
      \cup { <<op, lo, hi>> : op \in Range(TwoOperands), lo \in ArgLo, hi \in ArgHi }
      \cup { <<op>> : op \in Range(NoOperand) }

\* the opcode k places after `op` in its list, cyclically
LaterOpcode(op, k) ==
    LET seq == CASE op \in Range(OneOperand) -> OneOperand
                 [] op \in Range(TwoOperands) -> TwoOperands
                 [] OTHER -> NoOperand
        pos == CHOOSE i \in 1 .. Len(seq) : seq[i] = op
    IN  seq[((pos - 1 + k) % Len(seq)) + 1]

\* a program of MaxInstr instructions laid out back to back from `at`: the given
\* instruction, then the same operands under the following opcodes of its list
ProgramCells(instr, at) ==
    [ a \in { (at + i) % 65536 : i \in 0 .. (MaxInstr * Len(instr) - 1) } |->
        LET off == (a - at) % 65536
        IN  IF off % Len(instr) = 0
            THEN LaterOpcode(instr[1], off \div Len(instr))
            ELSE instr[(off % Len(instr)) + 1] ]

Init ==
    \E a \in RegVals, x \in RegVals, y \in RegVals, pc \in StartPCs,
       fl \in StartFlags, sc \in StartScratch, instr \in Instructions,
       seed \in 0 .. (NumSeeds - 1) :
        /\ cpu = [ accumulator       |-> a,
                   x_index           |-> x,
                   y_index           |-> y,
                   stack_pointer     |-> 255,
                   program_counter   |-> pc,
                   flags             |-> fl,
                   current_opcode    |-> sc.opcode,
                   current_cycle     |-> 0,
                   effective_address |-> sc.effective_address,
                   pointer_address   |-> sc.pointer_address,
                   internal_flags    |-> sc.internal_flags ]
        /\ memory = [cells |-> ProgramCells(instr, pc), seed |-> seed]
        /\ flow = "None"
        /\ bus = <<>>
        /\ handed = <<>>
        /\ calls = 0
        /\ trace = <<>>
        /\ fcalls = <<>>
        /\ start = cpu
        /\ prev = cpu
        /\ instrs = 0
        /\ legacy = [cpu_state |-> cpu, prev |-> cpu, flow |-> "None", bus |-> <<>>,
                     handed |-> <<>>]
        /\ diagnostic = <<>>

-----------------------------------------------------------------------------
(* One bus cycle: the caller invokes the dispatcher and advances current_cycle *)

Running == flow \in {"None", "Continue", "Break"} /\ instrs < MaxInstr

\* a cycle whose dispatcher call returns
Cycle ==
    LET r == dispatch_current_opcode(cpu, memory)
    IN  /\ r.flow \in {"Continue", "Break"}
        /\ cpu' = [r.cpu EXCEPT !.current_cycle = next_cycle(r.cpu, r.flow)]
        /\ flow' = r.flow
        /\ bus' = r.bus
        /\ handed' = r.handed
        /\ calls' = IF cpu.current_cycle = 0 THEN 1 ELSE calls + 1
        /\ trace' = IF cpu.current_cycle = 0 THEN r.bus ELSE trace \o r.bus
        /\ fcalls' = IF cpu.current_cycle = 0 THEN r.handed ELSE fcalls \o r.handed
        /\ start' = IF cpu.current_cycle = 0 THEN cpu ELSE start
        /\ prev' = cpu
        /\ instrs' = IF r.flow = "Break" THEN instrs + 1 ELSE instrs
        /\ memory' = Transact(memory, r.bus)
        /\ UNCHANGED diagnostic

\* a cycle whose dispatcher call panics
Panic ==
    LET r == dispatch_current_opcode(cpu, memory)
    IN  /\ r.flow \in {"Unimplemented", "Unreachable"}
        /\ flow' = r.flow
        /\ bus' = r.bus
        /\ handed' = r.handed
        /\ prev' = cpu
        /\ cpu' = r.cpu
        /\ diagnostic' = <<r.panic>>
        /\ UNCHANGED <<memory, calls, trace, fcalls, start, instrs>>

FetchOpcode == Running /\ cpu.current_cycle = 0 /\ Cycle /\ UNCHANGED legacy

Immediate == Running /\ cpu.current_cycle > 0 /\ Mode(cpu.current_opcode) = "immediate" /\ Cycle /\ UNCHANGED legacy

ZeroPage == Running /\ cpu.current_cycle > 0 /\ Mode(cpu.current_opcode) = "zeropage" /\ Cycle /\ UNCHANGED legacy

ZeroPageX == Running /\ cpu.current_cycle > 0 /\ Mode(cpu.current_opcode) = "zeropage_x" /\ Cycle /\ UNCHANGED legacy

ZeroPageY == Running /\ cpu.current_cycle > 0 /\ Mode(cpu.current_opcode) = "zeropage_y" /\ Cycle /\ UNCHANGED legacy

Absolute == Running /\ cpu.current_cycle > 0 /\ Mode(cpu.current_opcode) = "absolute" /\ Cycle /\ UNCHANGED legacy

AbsoluteX == Running /\ cpu.current_cycle > 0 /\ Mode(cpu.current_opcode) = "absolute_x" /\ Cycle /\ UNCHANGED legacy

AbsoluteY == Running /\ cpu.current_cycle > 0 /\ Mode(cpu.current_opcode) = "absolute_y" /\ Cycle /\ UNCHANGED legacy

IndirectX == Running /\ cpu.current_cycle > 0 /\ Mode(cpu.current_opcode) = "indirect_x" /\ Cycle /\ UNCHANGED legacy

IndirectY == Running /\ cpu.current_cycle > 0 /\ Mode(cpu.current_opcode) = "indirect_y" /\ Cycle /\ UNCHANGED legacy

Abort == Running /\ cpu.current_cycle > 0 /\ Panic /\ UNCHANGED legacy

Next ==
    \/ FetchOpcode
    \/ Immediate
    \/ ZeroPage
    \/ ZeroPageX
    \/ ZeroPageY
    \/ Absolute
    \/ AbsoluteX
    \/ AbsoluteY
    \/ IndirectX
    \/ IndirectY
    \/ Abort

Spec == Init /\ [][Next]_vars

\* the runs a ticking clock is followed through: every program and every pair
\* of index registers, from one accumulator, status register and PC, with the
\* scratch fields as a page-crossing instruction left them
InitClock ==
    \E x \in RegVals, y \in RegVals, instr \in Instructions,
       seed \in 0 .. (NumSeeds - 1) :
        /\ cpu = [ accumulator       |-> 123,
                   x_index           |-> x,
                   y_index           |-> y,
                   stack_pointer     |-> 255,
                   program_counter   |-> 33021,
                   flags             |-> {},
                   current_opcode    |-> "EorAbsoluteX",
                   current_cycle     |-> 0,
                   effective_address |-> 65535,
                   pointer_address   |-> 254,
                   internal_flags    |-> {"EFFECTIVE_ADDR_CARRY"} ]
        /\ memory = [cells |-> ProgramCells(instr, 33021), seed |-> seed]
        /\ flow = "None"
        /\ bus = <<>>
        /\ handed = <<>>
        /\ calls = 0
        /\ trace = <<>>
        /\ fcalls = <<>>
        /\ start = cpu
        /\ prev = cpu
        /\ instrs = 0
        /\ legacy = [cpu_state |-> cpu, prev |-> cpu, flow |-> "None", bus |-> <<>>,
                     handed |-> <<>>]
        /\ diagnostic = <<>>

\* the external clock keeps invoking the dispatcher for as long as it runs
SpecClock == InitClock /\ [][Next]_vars /\ WF_vars(Next)

-----------------------------------------------------------------------------
(* The handlers over every accumulator and operand byte: the last instruction
   of a run is CMP #m or EOR #m, for each a and m of 0 .. 255 and each starting
   status register *)

AluOpcodes == {201, 73}

InitImmediate ==
    \E a \in 0 .. 255, m \in 0 .. 255, op \in AluOpcodes, fl \in StartFlags :
        /\ cpu = [ accumulator       |-> a,
                   x_index           |-> 0,
                   y_index           |-> 0,
                   stack_pointer     |-> 255,
                   program_counter   |-> 512,
                   flags             |-> fl,
                   current_opcode    |-> "Unimplemented",
                   current_cycle     |-> 0,
                   effective_address |-> 0,
                   pointer_address   |-> 0,
                   internal_flags    |-> {} ]
        /\ memory = [cells |-> ProgramCells(<<op, m>>, 512), seed |-> 0]
        /\ flow = "None"
        /\ bus = <<>>
        /\ handed = <<>>
        /\ calls = 0
        /\ trace = <<>>
        /\ fcalls = <<>>
        /\ start = cpu
        /\ prev = cpu
        /\ instrs = MaxInstr - 1
        /\ legacy = [cpu_state |-> cpu, prev |-> cpu, flow |-> "None", bus |-> <<>>,
                     handed |-> <<>>]
        /\ diagnostic = <<>>

InitAlu == Init \/ InitImmediate

SpecAlu == InitAlu /\ [][Next]_vars

-----------------------------------------------------------------------------
(* The templates of templates.rs run side by side with those of templates/read.rs:
   each cycle steps the Cpu through the dispatcher and the CpuState through the
   templates.rs template of the same opcode, on the same memory *)

LegacyRunning == legacy.flow \in {"None", "Continue", "Break"}

LegacyCycle ==
    \E build \in Builds :
    LET r == Built(legacy_dispatch(legacy.cpu_state, memory), build)
    IN  /\ r.flow \in {"Continue", "Break"}
        /\ legacy' = [ cpu_state |-> [r.cpu EXCEPT !.current_cycle =
                                                       next_cycle(r.cpu, r.flow)],
                       prev      |-> legacy.cpu_state,
                       flow      |-> r.flow,
                       bus       |-> r.bus,
                       handed    |-> r.handed ]

\* a cycle after the opcode fetch, taken by both
BothTemplate ==
    /\ Running /\ LegacyRunning
    /\ cpu.current_cycle > 0 /\ legacy.cpu_state.current_cycle > 0
    /\ Mode(legacy.cpu_state.current_opcode) = Mode(cpu.current_opcode)
    /\ Cycle /\ LegacyCycle

BothFetchOpcode ==
    /\ Running /\ LegacyRunning
    /\ cpu.current_cycle = 0 /\ legacy.cpu_state.current_cycle = 0
    /\ Cycle /\ LegacyCycle

BothImmediate == Mode(cpu.current_opcode) = "immediate" /\ BothTemplate

BothZeroPage == Mode(cpu.current_opcode) = "zeropage" /\ BothTemplate

BothZeroPageIndexed == Mode(cpu.current_opcode) \in {"zeropage_x", "zeropage_y"} /\ BothTemplate

BothAbsolute == Mode(cpu.current_opcode) = "absolute" /\ BothTemplate

BothAbsoluteIndexed == Mode(cpu.current_opcode) \in {"absolute_x", "absolute_y"} /\ BothTemplate

NextLegacy ==
    \/ BothFetchOpcode
    \/ BothImmediate
    \/ BothZeroPage
    \/ BothZeroPageIndexed
    \/ BothAbsolute
    \/ BothAbsoluteIndexed

SpecLegacy == Init /\ [][NextLegacy]_vars

-----------------------------------------------------------------------------
(* What the properties below read off a run *)

\* a dispatcher call has returned
Returned == flow \in {"Continue", "Break"}

\* the last call was the opcode fetch / a call into a template
WasFetch == Returned /\ prev.current_cycle = 0

WasTemplate == Returned /\ prev.current_cycle > 0

\* the addressing mode of the instruction in progress or just completed
CurMode == Mode(cpu.current_opcode)

\* the operand bytes of that instruction, as they lie in memory after its opcode
Operand1 == load(memory, (start.program_counter + 1) % 65536)

Operand2 == load(memory, (start.program_counter + 2) % 65536)

\* the index register an indexed mode adds, as it was when the instruction began
StartIndex == IF CurMode \in {"zeropage_x", "absolute_x", "indirect_x"}
              THEN start.x_index ELSE start.y_index

\* the address of the one load of the last call
BusAddr == bus[1].addr

\* the address the instruction's addressing mode designates, from its operand
\* bytes, the index registers it began with and the pointer cells in memory
EffectiveAddress ==
    CASE CurMode = "zeropage" -> Operand1
      [] CurMode \in {"zeropage_x", "zeropage_y"} -> (Operand1 + StartIndex) % 256
      [] CurMode = "absolute" -> 256 * Operand2 + Operand1
      [] CurMode \in {"absolute_x", "absolute_y"} ->
            (256 * Operand2 + Operand1 + StartIndex) % 65536
      [] CurMode = "indirect_x" ->
            256 * load(memory, (Operand1 + start.x_index + 1) % 256)
              + load(memory, (Operand1 + start.x_index) % 256)
      [] CurMode = "indirect_y" ->
            (256 * load(memory, (Operand1 + 1) % 256) + load(memory, Operand1)
               + start.y_index) % 65536

\* the operand byte M of the instruction: the immediate byte or the byte there
OperandByte ==
    IF CurMode = "immediate" THEN Operand1 ELSE load(memory, EffectiveAddress)

-----------------------------------------------------------------------------
(* C1: for the modes without a page-cross penalty the call that returns break
   is always the same one, counted from the opcode fetch, whatever the operands,
   registers and memory hold: immediate the 2nd, zero-page the 3rd,
   zero-page,X / zero-page,Y the 4th, absolute the 4th, indirect,X the 6th. *)
FixedCycles(mode) ==
    CASE mode = "immediate" -> 2
      [] mode = "zeropage" -> 3
      [] mode \in {"zeropage_x", "zeropage_y"} -> 4
      [] mode = "absolute" -> 4
      [] mode = "indirect_x" -> 6

C1_FixedCycleCount ==
    (Returned /\ CurMode \in {"immediate", "zeropage", "zeropage_x", "zeropage_y",
                              "absolute", "indirect_x"})
        => ((flow = "Break") <=> (calls = FixedCycles(CurMode)))

C1_Witness ==
    /\ flow = "Break" /\ CurMode = "indirect_x" /\ calls = 6
    /\ Operand1 + start.x_index > 255

(* C2: an absolute,X / absolute,Y read returns break on the 5th call when
   operand low byte + index exceeds 0xFF, and on the 4th call otherwise. *)
C2_AbsoluteIndexedCycles ==
    (Returned /\ CurMode \in {"absolute_x", "absolute_y"})
        => ((flow = "Break")
              <=> (calls = IF Operand1 + StartIndex > 255 THEN 5 ELSE 4))

C2_Witness ==
    /\ flow = "Break" /\ CurMode = "absolute_y" /\ calls = 5
    /\ Operand1 + start.y_index > 255

(* C3: an indirect,Y read returns break on the 6th call when the low byte read
   from the zero-page pointer plus Y exceeds 0xFF, and on the 5th otherwise. *)
C3_IndirectYCycles ==
    (Returned /\ CurMode = "indirect_y")
        => ((flow = "Break")
              <=> (calls = IF load(memory, Operand1) + start.y_index > 255
                           THEN 6 ELSE 5))

C3_Witness ==
    /\ flow = "Break" /\ CurMode = "indirect_y" /\ calls = 6
    /\ load(memory, Operand1) + start.y_index > 255

(* C4: a call made with current_cycle = 0 loads the byte at PC, advances PC by
   one, stores the decoded byte in current_opcode, leaves current_cycle at 1,
   returns continue and hands nothing to a mnemonic handler; every other field
   of the Cpu keeps its value, whatever the scratch fields held. *)
C4_OpcodeFetch ==
    WasFetch =>
        /\ flow = "Continue"
        /\ bus = <<LoadAt(prev.program_counter)>>
        /\ handed = <<>>
        /\ cpu = [prev EXCEPT
                    !.program_counter = (prev.program_counter + 1) % 65536,
                    !.current_opcode  = OpCodeFrom(load(memory, prev.program_counter)),
                    !.current_cycle   = 1]

C4_Witness ==
    /\ WasFetch
    /\ instrs = 1
    /\ prev.effective_address > 255
    /\ "EFFECTIVE_ADDR_CARRY" \in prev.internal_flags
    /\ prev.current_opcode = "CmpAbsoluteX"
    /\ cpu.current_opcode = "CmpAbsoluteY"

(* C5: after a call made with current_cycle > 0, current_cycle is 0 if the call
   returned break and one more than before if it returned continue; once the
   handler has run, the instruction is complete and current_cycle is 0. *)
C5_CycleCounter ==
    WasTemplate =>
        /\ flow = "Break" => cpu.current_cycle = 0
        /\ flow = "Continue" => cpu.current_cycle = prev.current_cycle + 1
        /\ handed # <<>> => cpu.current_cycle = 0

C5_Witness ==
    /\ WasTemplate /\ flow = "Break" /\ handed # <<>>
    /\ prev.current_cycle = 5 /\ cpu.current_cycle = 0

(* C6: over a complete instruction PC advances by the instruction length, 2 for
   immediate, zero-page, zero-page,X/Y, indirect,X and indirect,Y and 3 for
   absolute and absolute,X/Y; a call advances PC by one exactly when it reads
   the instruction stream (the opcode, the first operand byte, the second
   operand byte of the absolute modes) and leaves it alone otherwise, the
   page-cross fix-up cycle included. *)
InstrLen(mode) ==
    IF mode \in {"absolute", "absolute_x", "absolute_y"} THEN 3 ELSE 2

ReadsInstructionStream ==
    \/ prev.current_cycle \in {0, 1}
    \/ prev.current_cycle = 2 /\ CurMode \in {"absolute", "absolute_x", "absolute_y"}

C6_ProgramCounter ==
    (Returned /\ CurMode # "none") =>
        /\ flow = "Break"
              => cpu.program_counter
                    = (start.program_counter + InstrLen(CurMode)) % 65536
        /\ cpu.program_counter
              = IF ReadsInstructionStream
                THEN (prev.program_counter + 1) % 65536
                ELSE prev.program_counter
        /\ ReadsInstructionStream => bus = <<LoadAt(prev.program_counter)>>

C6_Witness ==
    /\ flow = "Break" /\ CurMode = "absolute_x" /\ calls = 5
    /\ cpu.program_counter = start.program_counter + 3
    /\ prev.program_counter = cpu.program_counter

(* C7: every call that returns performs exactly one bus transaction, and it is
   a load: the opcode fetch and every cycle of every read template. *)
C7_OneLoadPerCall ==
    Returned => (Len(bus) = 1 /\ bus[1].op = "load")

C7_Witness ==
    /\ WasTemplate /\ flow = "Continue" /\ CurMode = "zeropage_x"
    /\ prev.current_cycle = 2 /\ Len(bus) = 1

(* C8: in the zero-page indexed modes the indexing cycle leaves
   effective_address = (operand + index) mod 256, and every data load of the
   zero-page and zero-page,X/Y templates targets 0x0000..0x00FF. *)
C8_ZeroPageWrap ==
    (WasTemplate /\ CurMode \in {"zeropage", "zeropage_x", "zeropage_y"}) =>
        /\ prev.current_cycle >= 2 => BusAddr <= 255
        /\ (CurMode # "zeropage" /\ prev.current_cycle >= 2)
              => cpu.effective_address = (Operand1 + StartIndex) % 256
        /\ (CurMode # "zeropage" /\ prev.current_cycle = 3)
              => BusAddr = (Operand1 + StartIndex) % 256

C8_Witness ==
    /\ WasTemplate /\ CurMode = "zeropage_x" /\ prev.current_cycle = 3
    /\ Operand1 + start.x_index > 255
    /\ BusAddr = Operand1 + start.x_index - 256

(* C9: the indirect modes read the pointer within the zero page: the low byte
   of the effective address is loaded from the pointer and the high byte from
   (pointer + 1) mod 256, so a pointer of 0xFF takes its high byte from 0x0000.
   The pointer is (operand + X) mod 256 for indirect,X and the operand for
   indirect,Y. *)
Pointer == IF CurMode = "indirect_x" THEN (Operand1 + start.x_index) % 256 ELSE Operand1

LowByteCycle == IF CurMode = "indirect_x" THEN 3 ELSE 2

C9_PointerWrap ==
    (WasTemplate /\ CurMode \in {"indirect_x", "indirect_y"}) =>
        /\ prev.current_cycle = LowByteCycle => BusAddr = Pointer
        /\ prev.current_cycle = LowByteCycle + 1
              => /\ BusAddr = (Pointer + 1) % 256
                 /\ cpu.effective_address \div 256 = load(memory, (Pointer + 1) % 256)

C9_Witness ==
    /\ WasTemplate /\ CurMode = "indirect_y" /\ prev.current_cycle = 3
    /\ Pointer = 255 /\ BusAddr = 0
    /\ trace[3].addr = 255

(* C10, for the templates the dispatcher runs (templates/read.rs): a call that
   returns continue leaves every bit of the status register as it was, so the
   flags before the handler runs are those the instruction began with; the
   page-crossing carry of absolute,X/Y and indirect,Y is recorded in
   internal_flags' EFFECTIVE_ADDR_CARRY alone. *)
CarryCycle == IF CurMode = "indirect_y" THEN 3 ELSE 2

CarryLowByte == IF CurMode = "indirect_y" THEN load(memory, Operand1) ELSE Operand1

C10_StatusUntouchedByAddressing ==
    WasTemplate =>
        /\ flow = "Continue" => cpu.flags = start.flags
        /\ (CurMode \in {"absolute_x", "absolute_y", "indirect_y"}
              /\ prev.current_cycle = CarryCycle)
              => (("EFFECTIVE_ADDR_CARRY" \in cpu.internal_flags)
                    <=> (CarryLowByte + StartIndex > 255))

(* C10, as claimed, over both sets of templates: during the addressing cycles
   (every call that returns continue) no bit of the status register changes,
   in templates/read.rs and in templates.rs alike. *)
C10_CarryNeverInStatus ==
    /\ C10_StatusUntouchedByAddressing
    /\ (legacy.flow = "Continue" /\ legacy.prev.current_cycle > 0)
          => legacy.cpu_state.flags = legacy.prev.flags

-----------------------------------------------------------------------------
(* C11: when a CMP completes, in any addressing mode, with accumulator A and
   operand byte M: CARRY is set exactly when A >= M, ZERO exactly when A = M,
   NEGATIVE exactly when bit 7 of (A - M) mod 256 is set, and the accumulator
   still holds A; the CARRY flag the instruction began with plays no part. *)
C11_CmpFlags ==
    (flow = "Break" /\ Mnemonic(cpu.current_opcode) = "cmp")
        => LET A == start.accumulator
               M == OperandByte
           IN  /\ ("CARRY" \in cpu.flags) <=> (A >= M)
               /\ ("ZERO" \in cpu.flags) <=> (A = M)
               /\ ("NEGATIVE" \in cpu.flags) <=> (((A - M) % 256) \div 128 = 1)
               /\ cpu.accumulator = A

\* CMP #200 with A = 77 and CARRY set beforehand: A < M clears CARRY, and
\* (77 - 200) mod 256 = 133 sets NEGATIVE
C11_Witness ==
    /\ flow = "Break"
    /\ cpu.current_opcode = "CmpImmediate"
    /\ start.accumulator = 77
    /\ OperandByte = 200
    /\ "CARRY" \in start.flags
    /\ "CARRY" \notin cpu.flags
    /\ "NEGATIVE" \in cpu.flags
    /\ "ZERO" \notin cpu.flags

-----------------------------------------------------------------------------
(* C12: a completed CMP leaves OVERFLOW, DECIMAL, INTERRUPT_DISABLE and BREAK
   as they were when the instruction began, and a completed EOR leaves those
   and CARRY as they were, in every addressing mode and on the page-crossing
   paths as well. *)
CmpFrame == {"OVERFLOW", "DECIMAL", "INTERRUPT_DISABLE", "BREAK"}

EorFrame == {"CARRY", "OVERFLOW", "DECIMAL", "INTERRUPT_DISABLE", "BREAK"}

C12_FlagsFrame ==
    /\ (flow = "Break" /\ Mnemonic(cpu.current_opcode) = "cmp")
            => (cpu.flags \cap CmpFrame = start.flags \cap CmpFrame)
    /\ (flow = "Break" /\ Mnemonic(cpu.current_opcode) = "eor")
            => (cpu.flags \cap EorFrame = start.flags \cap EorFrame)

\* an EOR absolute,X that crossed a page and changed NEGATIVE or ZERO, begun
\* with every flag of the frame set
C12_Witness ==
    /\ flow = "Break"
    /\ cpu.current_opcode = "EorAbsoluteX"
    /\ calls = 5
    /\ EorFrame \subseteq start.flags
    /\ cpu.flags # start.flags

-----------------------------------------------------------------------------
(* C13: when an EOR completes, in any addressing mode, with accumulator A and
   operand byte M: the accumulator holds the bitwise exclusive-or of A and M,
   ZERO is set exactly when that byte is 0 and NEGATIVE exactly when its bit 7
   is set. *)
Bit(v, i) == (v \div (2 ^ i)) % 2

C13_EorResult ==
    (flow = "Break" /\ Mnemonic(cpu.current_opcode) = "eor")
        => LET A == start.accumulator
               M == OperandByte
           IN  /\ cpu.accumulator \in 0 .. 255
               /\ \A i \in 0 .. 7 :
                      Bit(cpu.accumulator, i) = (Bit(A, i) + Bit(M, i)) % 2
               /\ ("ZERO" \in cpu.flags) <=> (cpu.accumulator = 0)
               /\ ("NEGATIVE" \in cpu.flags) <=> (Bit(cpu.accumulator, 7) = 1)

\* EOR #77 with A = 77 and NEGATIVE set beforehand: the accumulator becomes 0,
\* ZERO is set and NEGATIVE cleared
C13_Witness ==
    /\ flow = "Break"
    /\ cpu.current_opcode = "EorImmediate"
    /\ start.accumulator = 77
    /\ OperandByte = 77
    /\ "NEGATIVE" \in start.flags
    /\ cpu.accumulator = 0
    /\ "ZERO" \in cpu.flags
    /\ "NEGATIVE" \notin cpu.flags

-----------------------------------------------------------------------------
(* C14: a fetched byte that is no discriminant of the opcode table decodes to
   the Unimplemented sentinel; the next dispatcher call, on the sentinel, ends
   in the unimplemented-opcode failure, and that call runs no handler, issues
   no bus transaction and changes no register. *)
TableBytes == { e[1] : e \in OpCodeTable }

C14_UnimplementedOpcode ==
    /\ (WasFetch /\ load(memory, prev.program_counter) \notin TableBytes)
            => cpu.current_opcode = "Unimplemented"
    /\ (Running /\ cpu.current_cycle > 0 /\ cpu.current_opcode = "Unimplemented")
            => dispatch_current_opcode(cpu, memory).flow = "Unimplemented"
    /\ (flow = "Unimplemented")
            => /\ \A byte \in (0 .. 255) \ TableBytes : OpCodeFrom(byte) = "Unimplemented"
               /\ bus = <<>>
               /\ handed = <<>>
               /\ cpu = prev
               /\ trace = <<LoadAt(start.program_counter)>>
               /\ fcalls = <<>>

\* the byte 0xFF, in no row of the table, was fetched and the call after the
\* fetch failed
C14_Witness ==
    /\ flow = "Unimplemented"
    /\ load(memory, start.program_counter) = 255
    /\ 255 \notin TableBytes
    /\ prev.current_opcode = "Unimplemented"
    /\ prev.current_cycle = 1
    /\ start.current_opcode = "EorAbsoluteX"

-----------------------------------------------------------------------------
(* C15: the unimplemented-opcode failure reports a diagnostic that names the
   offending opcode byte and the program counter it was fetched at.  The
   panic of `_ => unimplemented!()` formats no argument into its message, so
   this does not hold of the code. *)
C15_DiagnosticNamesByteAndPc ==
    (flow = "Unimplemented")
        => /\ Len(diagnostic) = 1
           /\ \E i \in DOMAIN diagnostic[1].args :
                  diagnostic[1].args[i] = load(memory, start.program_counter)
           /\ \E i \in DOMAIN diagnostic[1].args :
                  diagnostic[1].args[i] = start.program_counter

\* what the failure does report: the fixed message of the macro, alike for
\* every byte and every program counter
C15_DiagnosticIsFixedMessage ==
    (flow = "Unimplemented")
        => diagnostic = <<[message |-> "not implemented", args |-> <<>>]>>

-----------------------------------------------------------------------------
(* C16: the dummy read comes before the indexing.  The cycle-2 call of
   zero-page,X / zero-page,Y loads from the un-indexed operand address and only
   then replaces effective_address by (operand + index) mod 256; the cycle-2
   call of indirect,X loads from the un-indexed pointer and only then replaces
   pointer_address by (pointer + X) mod 256.  Nothing else of the Cpu changes
   in that call, whatever the load returned, and f is not invoked. *)
C16_DummyReadBeforeIndexing ==
    /\ (WasTemplate /\ prev.current_cycle = 2 /\ CurMode \in {"zeropage_x", "zeropage_y"})
            => /\ prev.effective_address = Operand1
               /\ bus = <<LoadAt(Operand1)>>
               /\ handed = <<>>
               /\ cpu = [prev EXCEPT !.effective_address = (Operand1 + StartIndex) % 256,
                                     !.current_cycle = 3]
    /\ (WasTemplate /\ prev.current_cycle = 2 /\ CurMode = "indirect_x")
            => /\ prev.pointer_address = Operand1
               /\ bus = <<LoadAt(Operand1)>>
               /\ handed = <<>>
               /\ cpu = [prev EXCEPT !.pointer_address = (Operand1 + start.x_index) % 256,
                                     !.current_cycle = 3]

\* zero-page,X with operand 0x85 and X = 0x7B: the dummy read is at 0x0085 and
\* the indexed address wraps to 0x0000
C16_Witness ==
    /\ WasTemplate
    /\ prev.current_cycle = 2
    /\ CurMode = "zeropage_x"
    /\ Operand1 = 133
    /\ start.x_index = 123
    /\ bus = <<LoadAt(133)>>
    /\ cpu.effective_address = 0

-----------------------------------------------------------------------------
(* C17: absolute,X / absolute,Y with base B = (high << 8) | low and index I.
   The cycle-3 load targets (high << 8) | ((low + I) mod 256).  If low + I
   crossed the page that byte is discarded and the cycle-4 load targets that
   address plus 0x100 mod 2^16.  Either way the byte handed to the handler is
   the one loaded from (B + I) mod 2^16. *)
AbsoluteBase == 256 * Operand2 + Operand1

UncorrectedAddress == 256 * Operand2 + ((Operand1 + StartIndex) % 256)

C17_AbsoluteIndexedLoads ==
    /\ (WasTemplate /\ prev.current_cycle = 3 /\ CurMode \in {"absolute_x", "absolute_y"})
            => /\ bus = <<LoadAt(UncorrectedAddress)>>
               /\ IF Operand1 + StartIndex > 255
                  THEN /\ flow = "Continue"
                       /\ handed = <<>>
                       /\ cpu = [prev EXCEPT
                                   !.effective_address = (UncorrectedAddress + 256) % 65536,
                                   !.current_cycle = 4]
                  ELSE flow = "Break"
    /\ (WasTemplate /\ prev.current_cycle = 4 /\ CurMode \in {"absolute_x", "absolute_y"})
            => /\ Operand1 + StartIndex > 255
               /\ bus = <<LoadAt((UncorrectedAddress + 256) % 65536)>>
               /\ flow = "Break"
    /\ (flow = "Break" /\ CurMode \in {"absolute_x", "absolute_y"})
            => /\ BusAddr = (AbsoluteBase + StartIndex) % 65536
               /\ fcalls = <<load(memory, (AbsoluteBase + StartIndex) % 65536)>>

\* base 0xFF85 with X = 0x7B: the cycle-3 load at 0xFF00 is discarded and the
\* cycle-4 load wraps to 0x0000
C17_Witness ==
    /\ flow = "Break"
    /\ CurMode = "absolute_x"
    /\ AbsoluteBase = 65413
    /\ start.x_index = 123
    /\ prev.current_cycle = 4
    /\ trace[4] = LoadAt(65280)
    /\ bus = <<LoadAt(0)>>
    /\ handed = <<load(memory, 0)>>

-----------------------------------------------------------------------------
(* C18: the bus transactions of an indirect,X instruction, after its opcode
   fetch, are in this order: the fetch of P at the program counter, a dummy
   load at P, the load of the low address byte at (P + X) mod 256, the load of
   the high address byte at (P + X + 1) mod 256, and the load at
   (high << 8) | low; the handler receives the byte of that last load. *)
IndirectXTrace ==
    LET P    == Operand1
        X    == start.x_index
        low  == load(memory, (P + X) % 256)
        high == load(memory, (P + X + 1) % 256)
    IN  << LoadAt(start.program_counter),
           LoadAt((start.program_counter + 1) % 65536),
           LoadAt(P),
           LoadAt((P + X) % 256),
           LoadAt((P + X + 1) % 256),
           LoadAt(256 * high + low) >>

C18_IndirectXOrder ==
    (Returned /\ CurMode = "indirect_x")
        => /\ calls \in 1 .. 6
           /\ trace = SubSeq(IndirectXTrace, 1, calls)
           /\ (flow = "Break") <=> (calls = 6)
           /\ (flow = "Break") => (fcalls = <<load(memory, IndirectXTrace[6].addr)>>)
           /\ (flow # "Break") => (fcalls = <<>>)

\* P = 0x00 and X = 0xFF: dummy load at 0x0000, low byte from 0x00FF, high
\* byte from 0x0000, then the data load
C18_Witness ==
    /\ flow = "Break"
    /\ CurMode = "indirect_x"
    /\ Operand1 = 0
    /\ start.x_index = 255
    /\ Len(trace) = 6
    /\ trace[3] = LoadAt(0)
    /\ trace[4] = LoadAt(255)
    /\ trace[5] = LoadAt(0)
    /\ trace[6] = LoadAt(256 * load(memory, 0) + load(memory, 255))
    /\ trace[6] # trace[5]

-----------------------------------------------------------------------------
(* C19: indirect,Y with pointer P and base B = mem[P] | mem[(P + 1) mod 256] << 8.
   The byte handed to the handler is the one loaded from (B + Y) mod 2^16, on
   the 5-cycle and on the 6-cycle path.  On the 6-cycle path the cycle-4 load,
   whose byte is discarded, targets (B.high << 8) | ((B.low + Y) mod 256). *)
BaseLow == load(memory, Operand1)

BaseHigh == load(memory, (Operand1 + 1) % 256)

C19_IndirectYLoads ==
    /\ (flow = "Break" /\ CurMode = "indirect_y")
            => /\ calls \in {5, 6}
               /\ BusAddr = (256 * BaseHigh + BaseLow + start.y_index) % 65536
               /\ fcalls = <<load(memory,
                                  (256 * BaseHigh + BaseLow + start.y_index) % 65536)>>
    /\ (WasTemplate /\ prev.current_cycle = 4 /\ CurMode = "indirect_y"
          /\ flow = "Continue")
            => /\ BaseLow + start.y_index > 255
               /\ bus = <<LoadAt(256 * BaseHigh + ((BaseLow + start.y_index) % 256))>>
               /\ handed = <<>>
               /\ cpu = [prev EXCEPT
                           !.effective_address = (bus[1].addr + 256) % 65536,
                           !.current_cycle = 5]

\* a 6-cycle indirect,Y with Y = 0xFF: the cycle-4 load went to the
\* uncorrected address, the cycle-5 load one page above it
C19_Witness ==
    /\ flow = "Break"
    /\ CurMode = "indirect_y"
    /\ calls = 6
    /\ start.y_index = 255
    /\ BaseLow + 255 > 255
    /\ trace[5] = LoadAt(256 * BaseHigh + ((BaseLow + 255) % 256))
    /\ trace[6] = LoadAt((256 * BaseHigh + BaseLow + 255) % 65536)
    /\ handed = <<load(memory, trace[6].addr)>>

-----------------------------------------------------------------------------
(* C20: the impossible-cycle failure cannot happen.  For every opcode of the
   read family, when the calls start at current_cycle = 0 and the caller
   advances the counter on continue and resets it on break, no read template
   is entered with current_cycle outside the cycles it handles: no call ends
   in unreachable!() and none that is about to be made would. *)
LastCycle(mode) ==
    CASE mode = "immediate" -> 1
      [] mode = "zeropage" -> 2
      [] mode \in {"zeropage_x", "zeropage_y"} -> 3
      [] mode = "absolute" -> 3
      [] mode \in {"absolute_x", "absolute_y"} -> 4
      [] mode \in {"indirect_x", "indirect_y"} -> 5
      [] OTHER -> 0

C20_NoImpossibleCycle ==
    /\ flow # "Unreachable"
    /\ (cpu.current_cycle > 0 /\ cpu.current_opcode \in Handled)
            => /\ cpu.current_cycle \in 1 .. LastCycle(CurMode)
               /\ dispatch_current_opcode(cpu, memory).flow # "Unreachable"
    /\ (WasTemplate /\ cpu.current_opcode \in Handled)
            => prev.current_cycle \in 1 .. LastCycle(CurMode)

\* the second instruction of a run, an indirect,Y on its 6-cycle path, entered
\* its template on cycle 5, the last one it handles, and broke
C20_Witness ==
    /\ flow = "Break"
    /\ instrs = 2
    /\ CurMode = "indirect_y"
    /\ prev.current_cycle = 5
    /\ prev.current_cycle = LastCycle(CurMode)
    /\ cpu.current_cycle = 0

-----------------------------------------------------------------------------
(* C21: the scratch fields are dead between instructions.  Take the Cpu an
   instruction began with and any Cpu that agrees with it on A, X, Y, S, PC and
   the status flags but holds other values in effective_address,
   pointer_address and internal_flags: run on the same memory from
   current_cycle = 0, the two issue the same bus transactions, take the same
   number of calls and end in the same architectural state. *)

\* the calls of one instruction from Cpu c, the caller advancing current_cycle,
\* up to and including the call that breaks or panics
RECURSIVE RunInstruction(_, _)
RunInstruction(c, m) ==
    LET r == dispatch_current_opcode(c, m)
    IN  IF r.flow = "Continue"
        THEN LET rest == RunInstruction(
                             [r.cpu EXCEPT !.current_cycle = next_cycle(r.cpu, r.flow)], m)
             IN  [cpu |-> rest.cpu, flow |-> rest.flow, trace |-> r.bus \o rest.trace,
                  calls |-> 1 + rest.calls, fcalls |-> r.handed \o rest.fcalls]
        ELSE [cpu |-> [r.cpu EXCEPT !.current_cycle = next_cycle(r.cpu, r.flow)],
              flow |-> r.flow, trace |-> r.bus, calls |-> 1, fcalls |-> r.handed]

\* the architectural state of a Cpu
Architectural(c) ==
    <<c.accumulator, c.x_index, c.y_index, c.stack_pointer, c.program_counter, c.flags>>

\* other contents of the scratch fields
OtherScratch ==
    [effective_address : {4660, 65535},
     pointer_address   : {127, 255},
     internal_flags    : {{}, {"EFFECTIVE_ADDR_CARRY"}}]

WithScratch(c, sc) ==
    [c EXCEPT !.effective_address = sc.effective_address,
              !.pointer_address = sc.pointer_address,
              !.internal_flags = sc.internal_flags]

C21_ScratchIsDead ==
    (flow = "Break")
        => \A sc \in OtherScratch :
              LET other == RunInstruction(WithScratch(start, sc), memory)
              IN  /\ other.flow = "Break"
                  /\ other.trace = trace
                  /\ other.calls = calls
                  /\ other.fcalls = fcalls
                  /\ Architectural(other.cpu) = Architectural(cpu)

\* the second instruction of a run, an absolute,Y that crosses no page, begun
\* with the EFFECTIVE_ADDR_CARRY the page-crossing absolute,X before it left set
C21_Witness ==
    /\ flow = "Break"
    /\ instrs = 2
    /\ CurMode = "absolute_y"
    /\ "EFFECTIVE_ADDR_CARRY" \in start.internal_flags
    /\ start.effective_address > 255
    /\ calls = 4
    /\ RunInstruction(WithScratch(start, [effective_address |-> 0, pointer_address |-> 0,
                                          internal_flags |-> {}]), memory).calls = 4

-----------------------------------------------------------------------------
(* C22: instructions run strictly one after another.  The first dispatcher
   call and every call right after a break is an opcode fetch: it loads from
   the program counter, decodes the byte into current_opcode and returns
   continue; after a break that address is the one just past the last operand
   byte of the instruction that broke.  A call right after a continue is no
   opcode fetch: current_opcode stays as it is. *)
C22_Call ==
    /\ (flow \in {"None", "Break"})
            => /\ bus' = <<LoadAt(cpu.program_counter)>>
               /\ cpu'.current_opcode = OpCodeFrom(load(memory, cpu.program_counter))
               /\ cpu'.program_counter = (cpu.program_counter + 1) % 65536
               /\ flow' = "Continue"
               /\ handed' = <<>>
    /\ (flow = "Break")
            => bus' = <<LoadAt((start.program_counter + InstrLen(CurMode)) % 65536)>>
    /\ (flow = "Continue")
            => /\ cpu'.current_opcode = cpu.current_opcode
               /\ start' = start

C22_SequentialFetch == [][C22_Call]_vars

\* the fetch of the second instruction, 2 bytes past the start of an
\* indirect,Y that began at 0x80FD
C22_Witness ==
    /\ WasFetch
    /\ instrs = 1
    /\ calls = 1
    /\ start.current_opcode = "CmpIndirectY"
    /\ cpu.current_opcode = "EorImmediate"
    /\ bus = <<LoadAt(33023)>>
    /\ cpu.program_counter = 33024

-----------------------------------------------------------------------------
(* C23: in every read template the handler f is invoked exactly once per
   instruction: on the call that returns break, and on no call that returns
   continue.  On a page-crossing absolute,X / absolute,Y / indirect,Y read the
   call that loads from the uncorrected address hands nothing to f, and the
   one byte f gets is the byte of the last load. *)
C23_HandlerOnce ==
    /\ (flow = "Continue")
            => /\ handed = <<>>
               /\ fcalls = <<>>
               /\ cpu.accumulator = prev.accumulator
               /\ cpu.x_index = prev.x_index
               /\ cpu.flags = prev.flags
    /\ (flow = "Break")
            => /\ Len(handed) = 1
               /\ fcalls = handed
               /\ handed[1] = OperandByte
               /\ cpu = [Apply(Mnemonic(cpu.current_opcode), prev, handed[1])
                            EXCEPT !.current_cycle = 0,
                                   !.program_counter = cpu.program_counter]

\* a page-crossing indirect,Y: the byte at the uncorrected address is another
\* one than the byte f got, and f got only that one
C23_Witness ==
    /\ flow = "Break"
    /\ CurMode = "indirect_y"
    /\ calls = 6
    /\ Len(fcalls) = 1
    /\ fcalls[1] = load(memory, trace[6].addr)
    /\ fcalls[1] # load(memory, trace[5].addr)

-----------------------------------------------------------------------------
(* C24: read-family instructions never write.  No dispatcher call of a read
   template (or of the opcode fetch) issues a store, so memory holds after
   every call what it held before, through a complete CMP or EOR; and a call
   that returns continue leaves A, X, Y and S as they were. *)
C24_Call ==
    /\ memory' = memory
    /\ \A i \in DOMAIN bus' : bus'[i].op = "load"
    /\ (flow' = "Continue")
            => /\ cpu'.accumulator = cpu.accumulator
               /\ cpu'.x_index = cpu.x_index
               /\ cpu'.y_index = cpu.y_index
               /\ cpu'.stack_pointer = cpu.stack_pointer

C24_NoWrites == [][C24_Call]_vars

\* EOR zero-page,X then EOR indirect,X have both completed, the second with a
\* new accumulator, and memory is the program as it was laid out at 0x0200
C24_Witness ==
    /\ flow = "Break"
    /\ instrs = 2
    /\ cpu.current_opcode = "EorIndirectX"
    /\ cpu.accumulator # start.accumulator
    /\ memory.cells = ProgramCells(<<85, 133>>, 512)
    /\ cpu.stack_pointer = 255

-----------------------------------------------------------------------------
(* C25: every instruction terminates.  While the clock keeps invoking the
   dispatcher, from a state with current_cycle = 0 and the opcode of a
   read-family instruction at PC a break is eventually returned; it takes at
   most 6 dispatcher calls, and current_cycle never exceeds 5. *)

\* k instructions are done and the next one, of the read family, is about to
\* be fetched
AtInstruction(k) ==
    /\ flow \in {"None", "Break"}
    /\ cpu.current_cycle = 0
    /\ instrs = k
    /\ OpCodeFrom(load(memory, cpu.program_counter)) \in Handled

C25_Terminates ==
    /\ [](cpu.current_cycle <= 5 /\ calls <= 6)
    /\ \A k \in 0 .. (MaxInstr - 1) :
          AtInstruction(k) ~> (flow = "Break" /\ instrs = k + 1 /\ cpu.current_cycle = 0)

\* the second instruction, an indirect,Y on its 6-cycle path, broke on its
\* sixth call, which was entered with current_cycle = 5
C25_Witness ==
    /\ flow = "Break"
    /\ instrs = 2
    /\ calls = 6
    /\ prev.current_cycle = 5
    /\ cpu.current_opcode = "EorIndirectY"
    /\ OpCodeFrom(load(memory, start.program_counter)) \in Handled

-----------------------------------------------------------------------------
(* C26: the templates of templates.rs and their counterparts of
   templates/read.rs are equivalent step for step: run side by side from equal
   states on the same memory, after every call the two have issued the same
   loads, returned the same continue / break, handed the same byte to the
   handler, and hold the same PC, effective_address and status register.
   read_absolute_indexed keeps the page-crossing carry in the status register,
   so this does not hold of the code. *)
C26_SideBySideEqual ==
    (Returned /\ legacy.flow \in {"Continue", "Break"})
        => /\ legacy.bus = bus
           /\ legacy.flow = flow
           /\ legacy.handed = handed
           /\ legacy.cpu_state.program_counter = cpu.program_counter
           /\ legacy.cpu_state.effective_address = cpu.effective_address
           /\ legacy.cpu_state.flags = cpu.flags

\* what does hold side by side: everything but the IGNORED_FLAG bit of the
\* status register agrees
C26_EqualButIgnoredFlag ==
    (Returned /\ legacy.flow \in {"Continue", "Break"})
        => /\ legacy.bus = bus
           /\ legacy.flow = flow
           /\ legacy.handed = handed
           /\ legacy.cpu_state.program_counter = cpu.program_counter
           /\ legacy.cpu_state.effective_address = cpu.effective_address
           /\ legacy.cpu_state.accumulator = cpu.accumulator
           /\ legacy.cpu_state.flags \ {"IGNORED_FLAG"} = cpu.flags \ {"IGNORED_FLAG"}

====
